---- MODULE Spec2Model ----
(***************************************************************************)
(* Model of the PDF conversion pipeline of go-pdf-converter:               *)
(*   ConvertToPDF (dispatch on the file extension), convertImageToPDF      *)
(*   (page sizing), convertTextToPDF and convertDocxToPDF (temp files and  *)
(*   the external LibreOffice process).                                    *)
(*                                                                         *)
(* Strings are sequences of one-character strings, so that filepath.Ext,   *)
(* strings.ToLower and strings.TrimSuffix are computed, not assumed.       *)
(* float64 values are modelled as exact rationals <<num, den>> in lowest   *)
(* terms with den > 0; rounding of IEEE doubles is not modelled.           *)
(***************************************************************************)
EXTENDS Integers, Sequences, FiniteSets, TLC

VARIABLES
    img,        \* convertImageToPDF, one run at a time: position and locals
    pc,         \* per call: position inside ConvertToPDF / convertDocxToPDF
    filename,   \* per call: the filename argument
    data,       \* per call: the data argument
    cmd,        \* per call: the libreoffice process (exec.Cmd) and its stderr buffer
    outSeen,    \* per call: what os.ReadFile(outputFile) found
    result,     \* per call: the (bytes, error) pair returned
    invoked,    \* per call: the converters ConvertToPDF called
    fs,         \* the temp directory: path -> file
    foreign,    \* history: a call read, overwrote or removed another call's file
    overlap,    \* history: a call was started while another call was running
    txt,        \* convertTextToPDF, one run at a time: position and locals
    boot,       \* main: environment, connection attempts, server
    req,        \* the HTTP request being handled: position and locals of its handler
    db          \* the files table: sequence of rows, the id of a row is its index

vars == <<img, pc, filename, data, cmd, outSeen, result, invoked, fs, foreign,
          overlap, txt, boot, req, db>>

convVars == <<pc, filename, data, cmd, outSeen, result, invoked, fs, foreign, overlap>>

\* what the conversion pipeline does not touch
restVars == <<img, txt, boot, req, db>>

----------------------------------------------------------------------------
(* Bounds *)

\* pixel sizes k * PixelStep for k in 1..MaxPixelUnits are tried besides PixelSamples
MaxPixelUnits == 12
\* number of ConvertToPDF calls, each on a goroutine of its own
NumCalls == 2

PixelStep == 100
\* texts of up to MaxTextLen characters are tried besides TextSamples
MaxTextLen == 4
\* number of requests served in one run of main
MaxServed == 2
\* files in the multipart form of one POST /upload
MaxFiles == 2
\* ids in the query of one GET /download-zip
MaxIds == 2

----------------------------------------------------------------------------
(* Exact rationals for float64 arithmetic *)

RECURSIVE GCD(_, _)
GCD(a, b) == IF b = 0 THEN a ELSE GCD(b, a % b)

Norm(r) ==
    LET g == GCD(r[1], r[2]) IN <<r[1] \div g, r[2] \div g>>

Rat(n) == <<n, 1>>

RMul(a, b) ==
    LET g1 == GCD(a[1], b[2])
        g2 == GCD(b[1], a[2])
    IN  Norm(<<(a[1] \div g1) * (b[1] \div g2), (a[2] \div g2) * (b[2] \div g1)>>)

RDiv(a, b) == RMul(a, <<b[2], b[1]>>)

RGt(a, b) == a[1] * b[2] > b[1] * a[2]

RLe(a, b) == ~RGt(a, b)

----------------------------------------------------------------------------
(* convertImageToPDF: page size *)

dpi == Rat(72)
mmPerInch == <<127, 5>>
maxWidth == Rat(210)
maxHeight == Rat(297)

\* PixelsToMM with the resolution taken as 96 dpi
PixelsToMM96(px) == RMul(RDiv(Rat(px), Rat(96)), mmPerInch)

\* widthMM := (width / dpi) * mmPerInch
PixelsToMM(px) == RMul(RDiv(Rat(px), dpi), mmPerInch)

\* CapToA4 that clamps each dimension to its own bound
CapToA4Independent(width, height, widthMM, heightMM) ==
    [Wd |-> IF RGt(widthMM, maxWidth) THEN maxWidth ELSE widthMM,
     Ht |-> IF RGt(heightMM, maxHeight) THEN maxHeight ELSE heightMM]

\* CapToA4 that clamps the smaller dimension instead of the larger
CapToA4Swapped(width, height, widthMM, heightMM) ==
    IF RGt(widthMM, maxWidth) \/ RGt(heightMM, maxHeight)
    THEN LET ratio == RDiv(Rat(width), Rat(height)) IN
         IF RGt(heightMM, widthMM)
         THEN [Wd |-> maxWidth, Ht |-> RDiv(maxWidth, ratio)]
         ELSE [Wd |-> RMul(maxHeight, ratio), Ht |-> maxHeight]
    ELSE [Wd |-> widthMM, Ht |-> heightMM]

\* the if statement that limits the page size to A4
CapToA4(width, height, widthMM, heightMM) ==
    IF RGt(widthMM, maxWidth) \/ RGt(heightMM, maxHeight)
    THEN LET ratio == RDiv(Rat(width), Rat(height)) IN
         IF RGt(widthMM, heightMM)
         THEN [Wd |-> maxWidth, Ht |-> RDiv(maxWidth, ratio)]
         ELSE [Wd |-> RMul(maxHeight, ratio), Ht |-> maxHeight]
    ELSE [Wd |-> widthMM, Ht |-> heightMM]

\* gofpdf.SizeType{Wd: widthMM, Ht: heightMM} for an image of width x height pixels
PageSize(width, height) ==
    CapToA4(width, height, PixelsToMM(width), PixelsToMM(height))

NoSize == [Wd |-> Rat(0), Ht |-> Rat(0)]

PixelSamples == {1, 50, 595, 596, 841, 842, 5000, 10000}
Pixels == PixelSamples \cup {k * PixelStep : k \in 1..MaxPixelUnits}

ImgInit ==
    img = [pc |-> "decode", width |-> 0, height |-> 0,
           widthMM |-> Rat(0), heightMM |-> Rat(0), size |-> NoSize, err |-> "none"]

\* image.Decode succeeds: bounds.Dx(), bounds.Dy()
ImageDecode ==
    /\ img.pc = "decode"
    /\ \E w \in Pixels, h \in Pixels :
         img' = [img EXCEPT !.pc = "mm", !.width = w, !.height = h]

\* image.Decode fails
ImageDecodeError ==
    /\ img.pc = "decode"
    /\ img' = [img EXCEPT !.pc = "done", !.err = "DecodeError"]

ImageToMM ==
    /\ img.pc = "mm"
    /\ img' = [img EXCEPT !.pc = "cap",
                          !.widthMM = PixelsToMM(img.width),
                          !.heightMM = PixelsToMM(img.height)]

ImageCap ==
    /\ img.pc = "cap"
    /\ LET s == CapToA4(img.width, img.height, img.widthMM, img.heightMM) IN
       img' = [img EXCEPT !.pc = "page", !.widthMM = s.Wd, !.heightMM = s.Ht]

\* gofpdf.NewCustom with Size{Wd: widthMM, Ht: heightMM}, then the image is placed
ImageNewPage ==
    /\ img.pc = "page"
    /\ img' = [img EXCEPT !.pc = "done",
                          !.size = [Wd |-> img.widthMM, Ht |-> img.heightMM]]

\* the function returns; the next image is converted
ImageReturn ==
    /\ img.pc = "done"
    /\ img' = [pc |-> "decode", width |-> 0, height |-> 0,
               widthMM |-> Rat(0), heightMM |-> Rat(0), size |-> NoSize, err |-> "none"]

----------------------------------------------------------------------------
(* Strings: filepath.Ext, strings.ToLower, strings.TrimSuffix *)

UpperCase == <<"A","B","C","D","E","F","G","H","I","J","K","L","M",
               "N","O","P","Q","R","S","T","U","V","W","X","Y","Z">>
LowerCase == <<"a","b","c","d","e","f","g","h","i","j","k","l","m",
               "n","o","p","q","r","s","t","u","v","w","x","y","z">>

ToLowerChar(ch) ==
    IF \E i \in 1..Len(UpperCase) : UpperCase[i] = ch
    THEN LowerCase[CHOOSE i \in 1..Len(UpperCase) : UpperCase[i] = ch]
    ELSE ch

\* strings.ToLower
ToLower(s) == [i \in 1..Len(s) |-> ToLowerChar(s[i])]

\* filepath.Ext: scan from the end for a dot, stopping at a path separator
RECURSIVE ExtFrom(_, _)
ExtFrom(path, i) ==
    IF i < 1 \/ path[i] = "/" THEN <<>>
    ELSE IF path[i] = "." THEN SubSeq(path, i, Len(path))
    ELSE ExtFrom(path, i - 1)

Ext(path) == ExtFrom(path, Len(path))

HasSuffix(s, suffix) ==
    /\ Len(s) >= Len(suffix)
    /\ SubSeq(s, Len(s) - Len(suffix) + 1, Len(s)) = suffix

\* strings.TrimSuffix
TrimSuffix(s, suffix) ==
    IF HasSuffix(s, suffix) THEN SubSeq(s, 1, Len(s) - Len(suffix)) ELSE s

----------------------------------------------------------------------------
(* Inputs of ConvertToPDF *)

\* a call is named by its number, which also marks the files it creates
Calls == 1..NumCalls

DocxNames == { <<"a",".","d","o","c","x">>,
               <<"a",".","D","O","C","X">>,
               <<"b",".","d","o","c","x">> }

OtherNames == { <<"a",".","p","n","g">>,
                <<"a",".","J","P","G">>,
                <<"a",".","j","p","e","g">>,
                <<"a",".","t","x","t">>,
                <<"a",".","d","o","c","x",".","T","x","t">>,
                <<"a",".","G","I","F">>,
                <<"a",".","p","d","f">>,
                <<"a",".">>,
                <<"a">> }

Filenames == DocxNames \cup OtherNames

\* the filenames given to concurrent calls
ConcurrentNames == DocxNames \cup { <<"a",".","t","x","t">> }

\* uploaded bytes: id names the content; img says whether image.Decode accepts it
Data == { [id |-> 1, img |-> FALSE, w |-> 0, h |-> 0],
          [id |-> 2, img |-> FALSE, w |-> 0, h |-> 0],
          [id |-> 3, img |-> TRUE, w |-> 100, h |-> 50] }

\* the data given to concurrent call p: the calls carry pairwise different bytes,
\* so that a result made from another call's bytes is told apart
Upload(p) == [id |-> p, img |-> FALSE, w |-> 0, h |-> 0]

NoData == [id |-> 0, img |-> FALSE, w |-> 0, h |-> 0]

\* byte slices: the uploaded bytes themselves, or a PDF made from them
Nil == [kind |-> "nil", src |-> 0, size |-> NoSize]
Raw(d) == [kind |-> "raw", src |-> d.id, size |-> NoSize]
Truncated == [kind |-> "truncated", src |-> 0, size |-> NoSize]

NoName == <<>>
NoErr == [kind |-> "none", ext |-> <<>>, stderr |-> ""]
NoResult == [bytes |-> Nil, err |-> NoErr]

Err(kind) == [kind |-> kind, ext |-> <<>>, stderr |-> ""]

----------------------------------------------------------------------------
(* The temp directory *)

PdfSuffix == <<".","p","d","f">>

\* tmpInputFile := filepath.Join(tmpDir, filename)
TmpInputFile(name) == name

\* an output path that does not depend on the filename
OutputFileFixed(name) == <<"o","u","t">> \o PdfSuffix

\* outputFile := filepath.Join(tmpDir, baseName+".pdf")
OutputFile(name) == TrimSuffix(name, Ext(name)) \o PdfSuffix

Paths == {TmpInputFile(n) : n \in Filenames} \cup {OutputFile(n) : n \in Filenames}

NoFile == [exists |-> FALSE, content |-> Nil, owner |-> 0]
File(content, owner) == [exists |-> TRUE, content |-> content, owner |-> owner]

\* a call touches a file that another call created
Foreign(path, p) == fs[path].exists /\ fs[path].owner # p

----------------------------------------------------------------------------
(* ConvertToPDF and the in-memory converters *)

\* the switch on ext without the ".jpeg" case
ConverterNoJpeg(ext) ==
    IF ext \in { <<".","j","p","g">>, <<".","p","n","g">> }
    THEN "image"
    ELSE IF ext = <<".","t","x","t">> THEN "text"
    ELSE IF ext = <<".","d","o","c","x">> THEN "docx"
    ELSE "default"

\* the switch on ext
Converter(ext) ==
    IF ext \in { <<".","j","p","g">>, <<".","j","p","e","g">>, <<".","p","n","g">> }
    THEN "image"
    ELSE IF ext = <<".","t","x","t">> THEN "text"
    ELSE IF ext = <<".","d","o","c","x">> THEN "docx"
    ELSE "default"

\* the extension taken without strings.ToLower
DispatchExtCaseSensitive(name) == Ext(name)

\* ext := strings.ToLower(filepath.Ext(filename))
DispatchExt(name) == ToLower(Ext(name))

\* convertImageToPDF as a function of its input: decode, size the page, emit
convertImageToPDF(name, d) ==
    IF d.img
    THEN [bytes |-> [kind |-> "pdf-image", src |-> d.id, size |-> PageSize(d.w, d.h)],
          err |-> NoErr]
    ELSE [bytes |-> Nil, err |-> Err("DecodeError")]

\* convertTextToPDF as a function of its input
convertTextToPDF(name, d) ==
    [bytes |-> [kind |-> "pdf-text", src |-> d.id, size |-> NoSize], err |-> NoErr]

\* fmt.Errorf("unsupported file type: %s", ext)
UnsupportedFormat(ext) ==
    [bytes |-> Nil, err |-> [kind |-> "UnsupportedFormat", ext |-> ext, stderr |-> ""]]

\* what libreoffice --convert-to pdf writes for an input file's content
LibreOffice(content) == [kind |-> "pdf-docx", src |-> content.src, size |-> NoSize]

\* launches counts the times the process was started, or its start was tried
NoCmd == [state |-> "none", input |-> NoFile, stderr |-> "", launches |-> 0]

StderrTexts == {"", "Error: source file could not be loaded"}

ConvInit ==
    /\ pc = [p \in Calls |-> "idle"]
    /\ filename = [p \in Calls |-> NoName]
    /\ data = [p \in Calls |-> NoData]
    /\ cmd = [p \in Calls |-> NoCmd]
    /\ outSeen = [p \in Calls |-> "none"]
    /\ result = [p \in Calls |-> NoResult]
    /\ invoked = [p \in Calls |-> {}]
    /\ fs = [q \in Paths |-> NoFile]
    /\ foreign = FALSE
    /\ overlap = FALSE

\* call p enters ConvertToPDF(name, d); the image and text converters and the
\* default branch touch no shared state and return at once, convertDocxToPDF
\* continues with WriteInput
Dispatch(p, name, d) ==
    /\ pc[p] = "idle"
    /\ LET ext == DispatchExt(name)
           conv == Converter(ext)
       IN  /\ filename' = [filename EXCEPT ![p] = name]
           /\ data' = [data EXCEPT ![p] = d]
           /\ invoked' = [invoked EXCEPT ![p] = IF conv = "default" THEN {} ELSE {conv}]
           /\ result' = [result EXCEPT ![p] =
                  CASE conv = "image" -> convertImageToPDF(name, d)
                    [] conv = "text" -> convertTextToPDF(name, d)
                    [] conv = "docx" -> NoResult
                    [] OTHER -> UnsupportedFormat(ext)]
           /\ pc' = [pc EXCEPT ![p] = IF conv = "docx" THEN "write" ELSE "done"]
    /\ overlap' = (overlap \/ \E q \in Calls : q # p /\ pc[q] \notin {"idle", "done"})
    /\ UNCHANGED <<cmd, outSeen, fs, foreign>>

\* ConvertToPDF called on its own
ConvertToPDF(p, name, d) ==
    /\ Dispatch(p, name, d)
    /\ UNCHANGED restVars

----------------------------------------------------------------------------
(* convertDocxToPDF, one action per system call *)

\* os.WriteFile(tmpInputFile, data, 0644) succeeds; the removal of the input is deferred
WriteInput(p) ==
    /\ pc[p] = "write"
    /\ LET path == TmpInputFile(filename[p]) IN
       /\ fs' = [fs EXCEPT ![path] = File(Raw(data[p]), p)]
       /\ foreign' = (foreign \/ Foreign(path, p))
    /\ pc' = [pc EXCEPT ![p] = "run"]
    /\ UNCHANGED <<restVars, overlap, filename, data, cmd, outSeen, result, invoked>>

\* os.WriteFile fails: either the file could not be opened, or it was created or
\* truncated and the write failed; the function returns before any defer
WriteInputError(p) ==
    /\ pc[p] = "write"
    /\ LET path == TmpInputFile(filename[p]) IN
       \/ UNCHANGED <<fs, foreign>>
       \/ /\ fs' = [fs EXCEPT ![path] = File(Truncated, p)]
          /\ foreign' = (foreign \/ Foreign(path, p))
    /\ result' = [result EXCEPT ![p] = [bytes |-> Nil, err |-> Err("IOError")]]
    /\ pc' = [pc EXCEPT ![p] = "done"]
    /\ UNCHANGED <<restVars, overlap, filename, data, cmd, outSeen, invoked>>

\* cmd.Run: the process cannot be started
RunLaunchError(p) ==
    /\ pc[p] = "run"
    /\ cmd' = [cmd EXCEPT ![p] = [NoCmd EXCEPT !.state = "launch-failed",
                                              !.launches = cmd[p].launches + 1]]
    /\ result' = [result EXCEPT ![p] =
           [bytes |-> Nil,
            err |-> [kind |-> "ConversionToolError", ext |-> <<>>, stderr |-> ""]]]
    /\ pc' = [pc EXCEPT ![p] = "rm_in"]
    /\ UNCHANGED <<restVars, overlap, filename, data, outSeen, invoked, fs, foreign>>

\* cmd.Run: the process starts and loads tmpInputFile
RunStart(p) ==
    /\ pc[p] = "run"
    /\ LET path == TmpInputFile(filename[p]) IN
       /\ cmd' = [cmd EXCEPT ![p] = [NoCmd EXCEPT !.state = "running", !.input = fs[path],
                                                 !.launches = cmd[p].launches + 1]]
       /\ foreign' = (foreign \/ Foreign(path, p))
    /\ pc' = [pc EXCEPT ![p] = "tool"]
    /\ UNCHANGED <<restVars, overlap, filename, data, outSeen, result, invoked, fs>>

\* cmd.Run: the process ends; it has or has not written <outdir>/<basename>.pdf and
\* its exit status is zero or not (a missing input cannot be converted); the
\* stderr buffer is read only when cmd.Run fails, so its text is kept for that case
RunExit(p) ==
    /\ pc[p] = "tool"
    /\ \E wrote \in BOOLEAN, ok \in BOOLEAN, msg \in StderrTexts :
         LET path == OutputFile(filename[p]) IN
         /\ wrote => cmd[p].input.exists
         /\ ok => msg = ""
         /\ cmd' = [cmd EXCEPT ![p] =
                [state |-> IF ok THEN "exit-zero" ELSE "exit-nonzero",
                 input |-> NoFile, stderr |-> msg, launches |-> cmd[p].launches]]
         /\ IF wrote
            THEN /\ fs' = [fs EXCEPT ![path] = File(LibreOffice(cmd[p].input.content), p)]
                 /\ foreign' = (foreign \/ Foreign(path, p))
            ELSE UNCHANGED <<fs, foreign>>
         /\ IF ok
            THEN /\ pc' = [pc EXCEPT ![p] = "read"]
                 /\ UNCHANGED result
            ELSE /\ pc' = [pc EXCEPT ![p] = "rm_in"]
                 /\ result' = [result EXCEPT ![p] =
                        [bytes |-> Nil,
                         err |-> [kind |-> "ConversionToolError", ext |-> <<>>,
                                  stderr |-> msg]]]
    /\ UNCHANGED <<restVars, overlap, filename, data, outSeen, invoked>>

\* os.ReadFile(outputFile) succeeds; the removal of the output is deferred
ReadOutput(p) ==
    /\ pc[p] = "read"
    /\ LET path == OutputFile(filename[p]) IN
       /\ fs[path].exists
       /\ outSeen' = [outSeen EXCEPT ![p] = "present"]
       /\ result' = [result EXCEPT ![p] = [bytes |-> fs[path].content, err |-> NoErr]]
       /\ foreign' = (foreign \/ Foreign(path, p))
    /\ pc' = [pc EXCEPT ![p] = "rm_out"]
    /\ UNCHANGED <<restVars, overlap, filename, data, cmd, invoked, fs>>

\* os.ReadFile(outputFile) fails: the file is absent, or it is there and cannot be read
ReadOutputError(p) ==
    /\ pc[p] = "read"
    /\ LET path == OutputFile(filename[p]) IN
       \/ /\ ~fs[path].exists
          /\ outSeen' = [outSeen EXCEPT ![p] = "absent"]
          /\ result' = [result EXCEPT ![p] = [bytes |-> Nil, err |-> Err("OutputNotFound")]]
       \/ /\ fs[path].exists
          /\ outSeen' = [outSeen EXCEPT ![p] = "unreadable"]
          /\ result' = [result EXCEPT ![p] = [bytes |-> Nil, err |-> Err("IOError")]]
    /\ pc' = [pc EXCEPT ![p] = "rm_in"]
    /\ UNCHANGED <<restVars, overlap, filename, data, cmd, invoked, fs, foreign>>

\* deferred os.Remove(outputFile)
RemoveOutput(p) ==
    /\ pc[p] = "rm_out"
    /\ LET path == OutputFile(filename[p]) IN
       /\ fs' = [fs EXCEPT ![path] = NoFile]
       /\ foreign' = (foreign \/ Foreign(path, p))
    /\ pc' = [pc EXCEPT ![p] = "rm_in"]
    /\ UNCHANGED <<restVars, overlap, filename, data, cmd, outSeen, result, invoked>>

\* the return of convertDocxToPDF without the deferred os.Remove(tmpInputFile)
RemoveInputSkipped(p) ==
    /\ pc[p] = "rm_in"
    /\ pc' = [pc EXCEPT ![p] = "done"]
    /\ UNCHANGED <<restVars, overlap, filename, data, cmd, outSeen, result, invoked, fs, foreign>>

\* deferred os.Remove(tmpInputFile); convertDocxToPDF and ConvertToPDF return
RemoveInput(p) ==
    /\ pc[p] = "rm_in"
    /\ LET path == TmpInputFile(filename[p]) IN
       /\ fs' = [fs EXCEPT ![path] = NoFile]
       /\ foreign' = (foreign \/ Foreign(path, p))
    /\ pc' = [pc EXCEPT ![p] = "done"]
    /\ UNCHANGED <<restVars, overlap, filename, data, cmd, outSeen, result, invoked>>

\* the steps of convertDocxToPDF in call p
DocxStep(p) ==
    \/ WriteInput(p)
    \/ WriteInputError(p)
    \/ RunLaunchError(p)
    \/ RunStart(p)
    \/ RunExit(p)
    \/ ReadOutput(p)
    \/ ReadOutputError(p)
    \/ RemoveOutput(p)
    \/ RemoveInput(p)

----------------------------------------------------------------------------
(* convertTextToPDF *)

NL == "\n"

\* the index of the first newline of s, 0 when there is none
RECURSIVE IndexNL(_, _)
IndexNL(s, i) ==
    IF i > Len(s) THEN 0
    ELSE IF s[i] = NL THEN i
    ELSE IndexNL(s, i + 1)

\* a split that leaves out the empty elements
RECURSIVE SplitNonEmpty(_)
SplitNonEmpty(s) ==
    LET m == IndexNL(s, 1) IN
    IF m = 0 THEN (IF s = <<>> THEN <<>> ELSE <<s>>)
    ELSE (IF m = 1 THEN <<>> ELSE <<SubSeq(s, 1, m - 1)>>)
         \o SplitNonEmpty(SubSeq(s, m + 1, Len(s)))

\* strings.Split(text, "\n"): cut at every newline, keep what is left as the last element
RECURSIVE Split(_)
Split(s) ==
    LET m == IndexNL(s, 1) IN
    IF m = 0 THEN <<s>>
    ELSE <<SubSeq(s, 1, m - 1)>> \o Split(SubSeq(s, m + 1, Len(s)))

\* all texts over a letter and the newline, up to MaxTextLen characters
RECURSIVE TextsOfLen(_)
TextsOfLen(n) ==
    IF n = 0 THEN {<<>>}
    ELSE {Append(t, c) : t \in TextsOfLen(n - 1), c \in {"a", NL}}

TextSamples == { <<"a", NL, "b", "b", NL, "c", "c", "c">>,
                 <<"a", "\r", NL, "b">>,
                 <<"a", "b", "c", "a", "b", "c", "a", "b", "c", "a", "b", "c">> }

Texts == TextSamples \cup UNION {TextsOfLen(n) : n \in 0..MaxTextLen}

TextInit ==
    txt = [pc |-> "start", text |-> <<>>, lines |-> <<>>, i |-> 0, blocks |-> <<>>]

\* convertTextToPDF is entered: text := string(data)
TextStart ==
    /\ txt.pc = "start"
    /\ \E t \in Texts : txt' = [txt EXCEPT !.pc = "split", !.text = t]

\* lines := strings.Split(text, "\n")
TextSplit ==
    /\ txt.pc = "split"
    /\ txt' = [txt EXCEPT !.pc = "loop", !.lines = Split(txt.text), !.i = 1]

\* one iteration of the range loop: pdf.MultiCell(0, 5, line, "", "", false)
TextMultiCell ==
    /\ txt.pc = "loop"
    /\ txt.i <= Len(txt.lines)
    /\ txt' = [txt EXCEPT !.blocks = Append(txt.blocks, txt.lines[txt.i]),
                          !.i = txt.i + 1]

\* the loop ends; pdf.Output
TextOutput ==
    /\ txt.pc = "loop"
    /\ txt.i > Len(txt.lines)
    /\ txt' = [txt EXCEPT !.pc = "done"]

\* the function returns; the next text is converted
TextReturn ==
    /\ txt.pc = "done"
    /\ txt' = [pc |-> "start", text |-> <<>>, lines |-> <<>>, i |-> 0, blocks |-> <<>>]

----------------------------------------------------------------------------
(* main *)

EnvVars == {"DB_HOST", "DB_PORT", "DB_USER", "DB_PASSWORD", "DB_NAME"}

\* the values main puts in when DB_HOST is empty
MainDefaults ==
    [v \in EnvVars |->
        CASE v = "DB_HOST" -> "localhost"
          [] v = "DB_PORT" -> "5432"
          [] v = "DB_USER" -> "postgres"
          [] v = "DB_PASSWORD" -> "postgres"
          [] v = "DB_NAME" -> "pdfconverter"]

\* an environment: a variable that is not set reads as the empty string
Environments == [EnvVars -> {"", "custom"}]

NoConn == [v \in EnvVars |-> "-"]

maxRetries == 5

\* main, lines 15-31: the parameters of the connection string main builds
MainConnStr(env) ==
    IF env["DB_HOST"] = "" THEN MainDefaults ELSE env

\* NewDatabase(filepath): the parameters of the connection string given to
\* sql.Open; the argument is not used, the environment is read again
NewDatabaseConnStr(arg, env) == env

BootInit ==
    boot = [pc |-> "env", env |-> NoConn, connStr |-> NoConn, conn |-> NoConn,
            i |-> 0, attempts |-> <<>>, err |-> FALSE, listening |-> FALSE,
            served |-> 0]

\* main reads the environment and builds connStr
MainEnv ==
    /\ boot.pc = "env"
    /\ \E env \in Environments :
         boot' = [boot EXCEPT !.pc = "loop", !.env = env, !.connStr = MainConnStr(env)]

\* a successful attempt without the break
MainConnectNoBreak ==
    /\ boot.pc = "loop"
    /\ boot.i < maxRetries
    /\ boot' = [boot EXCEPT !.pc = "sleep", !.err = FALSE,
                            !.conn = NewDatabaseConnStr(boot.connStr, boot.env),
                            !.attempts = Append(boot.attempts, "ok")]

\* db, err = NewDatabase(connStr) succeeds: break
MainConnect ==
    /\ boot.pc = "loop"
    /\ boot.i < maxRetries
    /\ boot' = [boot EXCEPT !.pc = "check", !.err = FALSE,
                            !.conn = NewDatabaseConnStr(boot.connStr, boot.env),
                            !.attempts = Append(boot.attempts, "ok")]

\* db, err = NewDatabase(connStr) fails: log, then time.Sleep
MainConnectError ==
    /\ boot.pc = "loop"
    /\ boot.i < maxRetries
    /\ boot' = [boot EXCEPT !.pc = "sleep", !.err = TRUE,
                            !.conn = NewDatabaseConnStr(boot.connStr, boot.env),
                            !.attempts = Append(boot.attempts, "failed")]

\* the sleep ends: i++
MainSleep ==
    /\ boot.pc = "sleep"
    /\ boot' = [boot EXCEPT !.pc = "loop", !.i = boot.i + 1]

\* the loop condition i < maxRetries is false
MainLoopEnd ==
    /\ boot.pc = "loop"
    /\ boot.i >= maxRetries
    /\ boot' = [boot EXCEPT !.pc = "check"]

\* if err != nil { log.Fatalf }
MainFatal ==
    /\ boot.pc = "check"
    /\ boot.err
    /\ boot' = [boot EXCEPT !.pc = "exit"]

\* the handler and the routes are set up and the goroutine of http.ListenAndServe starts
MainListen ==
    /\ boot.pc = "check"
    /\ ~boot.err
    /\ boot' = [boot EXCEPT !.pc = "wait", !.listening = TRUE]

\* http.ListenAndServe fails to listen, in its goroutine: log.Fatalf
MainListenError ==
    /\ boot.pc = "wait"
    /\ boot.served = 0
    /\ boot' = [boot EXCEPT !.pc = "exit", !.listening = FALSE]

\* the server hands a request to a handler
MainServe ==
    /\ boot.listening
    /\ boot.served < MaxServed
    /\ boot' = [boot EXCEPT !.served = boot.served + 1]

\* <-sigChan: main returns
MainSignal ==
    /\ boot.pc = "wait"
    /\ boot' = [boot EXCEPT !.pc = "exit", !.listening = FALSE]

----------------------------------------------------------------------------
(* The HTTP handlers and the files table *)

\* the goroutine that serves the requests, one request at a time; its calls of
\* ConvertToPDF are call number Handler
Handler == 1

ServiceNames == { <<"a",".","p","n","g">>,
                  <<"a",".","t","x","t">>,
                  <<"a",".","d","o","c","x">> }

\* the bytes of file k of the form: the files carry pairwise different bytes
FormData(k, isImage) ==
    [id |-> k, img |-> isImage,
     w |-> IF isImage THEN 100 ELSE 0, h |-> IF isImage THEN 50 ELSE 0]

\* UploadResponse; FileID 0 and an empty FileIDs are omitted from the JSON
NoResponse ==
    [status |-> 0, success |-> FALSE, message |-> "", count |-> 0,
     name |-> NoName, err |-> NoErr, file_id |-> 0, file_ids |-> <<>>]

\* http.Error(w, message, status)
HttpError(status, message) == [NoResponse EXCEPT !.status = status, !.message = message]

\* respondJSON(w, status, UploadResponse{Success: false, Message: message})
Failure(status, message) == [NoResponse EXCEPT !.status = status, !.message = message]

\* HandleUpload's locals: names[k] is the Filename of the k-th file header the
\* loop has reached, outcomes[k] what became of it, converted the indices of the
\* files ConvertToPDF was called for, in the order of the calls
NoUpload ==
    [pc |-> "idle", n |-> 0, names |-> <<>>, outcomes |-> <<>>, converted |-> <<>>,
     pdfData |-> Nil, fileIDs |-> <<>>, resp |-> NoResponse]

\* the response of the latest GET request
NoGet ==
    [kind |-> "none", status |-> 0, message |-> "", ids |-> <<>>,
     filename |-> NoName, body |-> Nil, entries |-> {}]

\* req.returned: every (filename, bytes) a ConvertToPDF call has returned with a nil error
ServiceInit ==
    /\ req = [up |-> NoUpload, get |-> NoGet, returned |-> {}]
    /\ db = <<>>

\* what a returned ConvertToPDF call leaves of call number p: nothing
CallReturned(p) ==
    /\ pc' = [pc EXCEPT ![p] = "idle"]
    /\ filename' = [filename EXCEPT ![p] = NoName]
    /\ data' = [data EXCEPT ![p] = NoData]
    /\ cmd' = [cmd EXCEPT ![p] = NoCmd]
    /\ outSeen' = [outSeen EXCEPT ![p] = "none"]
    /\ result' = [result EXCEPT ![p] = NoResult]
    /\ invoked' = [invoked EXCEPT ![p] = {}]
    /\ UNCHANGED <<fs, foreign, overlap>>

\* HandleUpload up to the loop: the method, the form and the number of files
UploadStart ==
    /\ req.up.pc = "idle"
    /\ \/ req' = [req EXCEPT !.up.pc = "done",
                             !.up.resp = HttpError(405, "Method not allowed")]
       \/ req' = [req EXCEPT !.up.pc = "done",
                             !.up.resp = Failure(400, "Failed to parse form")]
       \/ req' = [req EXCEPT !.up.pc = "done",
                             !.up.resp = Failure(400, "No files uploaded")]
       \/ \E n \in 1..MaxFiles : req' = [req EXCEPT !.up.pc = "loop", !.up.n = n]
    /\ UNCHANGED <<convVars, img, txt, boot, db>>

\* fileHeader.Open() or io.ReadAll(file) fails: continue
UploadSkip ==
    /\ req.up.pc = "loop"
    /\ Len(req.up.names) < req.up.n
    /\ \E name \in ServiceNames, cause \in {"open-error", "read-error"} :
         req' = [req EXCEPT !.up.names = Append(@, name),
                            !.up.outcomes = Append(@, cause)]
    /\ UNCHANGED <<convVars, img, txt, boot, db>>

\* the file is opened and read; ConvertToPDF(fileHeader.Filename, data) is called
UploadConvert ==
    /\ req.up.pc = "loop"
    /\ Len(req.up.names) < req.up.n
    /\ \E name \in ServiceNames, isImage \in BOOLEAN :
         LET k == Len(req.up.names) + 1 IN
         /\ isImage => Converter(DispatchExt(name)) = "image"
         /\ Dispatch(Handler, name, FormData(k, isImage))
         /\ req' = [req EXCEPT !.up.pc = "convert",
                               !.up.names = Append(@, name),
                               !.up.converted = Append(@, k)]
    /\ UNCHANGED <<img, txt, boot, db>>

\* ConvertToPDF returns an error, which the loop goes on from as from a success
UploadConvertErrorIgnored ==
    /\ req.up.pc = "convert"
    /\ pc[Handler] = "done"
    /\ result[Handler].err # NoErr
    /\ req' = [req EXCEPT !.up.pc = "save", !.up.pdfData = result[Handler].bytes]
    /\ CallReturned(Handler)
    /\ UNCHANGED <<img, txt, boot, db>>

\* ConvertToPDF returns an error: the handler responds and returns
UploadConvertError ==
    /\ req.up.pc = "convert"
    /\ pc[Handler] = "done"
    /\ result[Handler].err # NoErr
    /\ req' = [req EXCEPT !.up.pc = "done",
                          !.up.outcomes = Append(@, "convert-error"),
                          !.up.resp = [Failure(400, "Failed to convert") EXCEPT
                                           !.name = filename[Handler],
                                           !.err = result[Handler].err]]
    /\ CallReturned(Handler)
    /\ UNCHANGED <<img, txt, boot, db>>

\* ConvertToPDF returns pdfData and a nil error
UploadConvertReturn ==
    /\ req.up.pc = "convert"
    /\ pc[Handler] = "done"
    /\ result[Handler].err = NoErr
    /\ req' = [req EXCEPT !.up.pc = "save",
                          !.up.pdfData = result[Handler].bytes,
                          !.returned = @ \cup {<<filename[Handler], result[Handler].bytes>>}]
    /\ CallReturned(Handler)
    /\ UNCHANGED <<img, txt, boot, db>>

\* INSERT INTO files (original_name, pdf_data) ... RETURNING id
SaveFile(originalName, pdfData) ==
    Append(db, [id |-> Len(db) + 1, original_name |-> originalName, pdf_data |-> pdfData])

\* h.db.SaveFile succeeds; fileIDs = append(fileIDs, fileID)
UploadSave ==
    /\ req.up.pc = "save"
    /\ db' = SaveFile(req.up.names[Len(req.up.names)], req.up.pdfData)
    /\ req' = [req EXCEPT !.up.pc = "loop",
                          !.up.pdfData = Nil,
                          !.up.outcomes = Append(@, "saved"),
                          !.up.fileIDs = Append(@, Len(db) + 1)]
    /\ UNCHANGED <<convVars, img, txt, boot>>

\* h.db.SaveFile fails and the loop takes the same file header again
UploadSaveErrorRetry ==
    /\ req.up.pc = "save"
    /\ req' = [req EXCEPT !.up.pc = "loop",
                          !.up.pdfData = Nil,
                          !.up.names = SubSeq(@, 1, Len(@) - 1)]
    /\ UNCHANGED <<convVars, img, txt, boot, db>>

\* h.db.SaveFile fails: continue
UploadSaveError ==
    /\ req.up.pc = "save"
    /\ req' = [req EXCEPT !.up.pc = "loop",
                          !.up.pdfData = Nil,
                          !.up.outcomes = Append(@, "save-error")]
    /\ UNCHANGED <<convVars, img, txt, boot, db>>

\* the response after the loop, by len(fileIDs)
UploadRespond ==
    /\ req.up.pc = "loop"
    /\ Len(req.up.names) = req.up.n
    /\ LET fileIDs == req.up.fileIDs IN
       req' = [req EXCEPT
           !.up.pc = "done",
           !.up.resp =
               IF Len(fileIDs) = 0
               THEN Failure(500, "Failed to process any files")
               ELSE IF Len(fileIDs) = 1
               THEN [NoResponse EXCEPT
                         !.status = 200, !.success = TRUE,
                         !.message = "File uploaded and converted successfully",
                         !.file_id = fileIDs[1]]
               ELSE [NoResponse EXCEPT
                         !.status = 200, !.success = TRUE,
                         !.message = "%d files uploaded and converted successfully",
                         !.count = Len(fileIDs),
                         !.file_ids = fileIDs]]
    /\ UNCHANGED <<convVars, img, txt, boot, db>>

\* pdfFilename := strings.TrimSuffix(record.OriginalName, filepath.Ext(record.OriginalName)) + ".pdf"
PdfFilename(originalName) == TrimSuffix(originalName, Ext(originalName)) \o PdfSuffix

\* the elements of a comma-separated ids parameter: a number or not
NotANumber == [num |-> FALSE, id |-> 0]
Number(id) == [num |-> TRUE, id |-> id]
IdTokens == {NotANumber} \cup {Number(id) : id \in 1..(Len(db) + 1)}

\* the loop over idStrs: what strconv.ParseInt rejects is left out
RECURSIVE ParseIds(_)
ParseIds(tokens) ==
    IF tokens = <<>> THEN <<>>
    ELSE LET rest == ParseIds(Tail(tokens)) IN
         IF Head(tokens).num THEN <<Head(tokens).id>> \o rest ELSE rest

\* GetFiles: the records of the ids that are found, in the order of ids
RECURSIVE GetFiles(_)
GetFiles(ids) ==
    IF ids = <<>> THEN <<>>
    ELSE LET rest == GetFiles(Tail(ids)) IN
         IF Head(ids) \in DOMAIN db THEN <<db[Head(ids)]>> \o rest ELSE rest

\* files := make(map[string][]byte); files[pdfFilename] = record.PDFData per record
RECURSIVE FilesMap(_)
FilesMap(records) ==
    IF records = <<>> THEN [k \in {} |-> Nil]
    ELSE LET n == Len(records)
             files == FilesMap(SubSeq(records, 1, n - 1))
             pdfFilename == PdfFilename(records[n].original_name)
         IN  [k \in DOMAIN files \cup {pdfFilename} |->
                 IF k = pdfFilename THEN records[n].pdf_data ELSE files[k]]

\* CreateZip: one archive entry per key of the map; the order of a map's range
\* is not fixed, the archive is kept as the set of its entries
CreateZip(files) == {[name |-> k, data |-> files[k]] : k \in DOMAIN files}

\* HandleDownload, as the one GET request of a run, before or after the upload
HandleDownload ==
    /\ req.up.pc \in {"idle", "done"}
    /\ req.get.kind = "none"
    /\ \/ req' = [req EXCEPT !.get = [NoGet EXCEPT !.kind = "download", !.status = 400,
                                                    !.message = "File ID required"]]
       \/ req' = [req EXCEPT !.get = [NoGet EXCEPT !.kind = "download", !.status = 400,
                                                    !.message = "Invalid file ID"]]
       \/ \E id \in 1..(Len(db) + 1) :
            req' = [req EXCEPT !.get =
                IF id \in DOMAIN db
                THEN [NoGet EXCEPT !.kind = "download", !.status = 200, !.ids = <<id>>,
                                   !.filename = PdfFilename(db[id].original_name),
                                   !.body = db[id].pdf_data]
                ELSE [NoGet EXCEPT !.kind = "download", !.status = 404, !.ids = <<id>>,
                                   !.message = "File not found"]]
    /\ UNCHANGED <<convVars, img, txt, boot, db>>

\* HandleDownloadZip, as the one GET request of a run, before or after the upload
HandleDownloadZip ==
    /\ req.up.pc \in {"idle", "done"}
    /\ req.get.kind = "none"
    /\ \/ req' = [req EXCEPT !.get = [NoGet EXCEPT !.kind = "zip", !.status = 400,
                                                    !.message = "File IDs required"]]
       \/ \E len \in 1..MaxIds : \E tokens \in [1..len -> IdTokens] :
            LET ids == ParseIds(tokens)
                records == GetFiles(ids)
            IN  req' = [req EXCEPT !.get =
                    IF ids = <<>>
                    THEN [NoGet EXCEPT !.kind = "zip", !.status = 400,
                                       !.message = "No valid file IDs"]
                    ELSE IF records = <<>>
                    THEN [NoGet EXCEPT !.kind = "zip", !.status = 404, !.ids = ids,
                                       !.message = "No files found"]
                    ELSE [NoGet EXCEPT !.kind = "zip", !.status = 200, !.ids = ids,
                                       !.filename = <<"c","o","n","v","e","r","t","e","d","_","p","d","f","s",".","z","i","p">>,
                                       !.entries = CreateZip(FilesMap(records))]]
    /\ UNCHANGED <<convVars, img, txt, boot, db>>

----------------------------------------------------------------------------
(* Specifications *)

Init == ConvInit /\ ImgInit /\ TextInit /\ BootInit /\ ServiceInit

\* NumCalls calls of ConvertToPDF on goroutines of their own, in any interleaving
Next ==
    \E p \in Calls :
        \/ \E name \in ConcurrentNames : ConvertToPDF(p, name, Upload(p))
        \/ DocxStep(p)

Spec == Init /\ [][Next]_vars

\* one call of ConvertToPDF, with every filename and every data
DispatchNext ==
    \/ \E name \in Filenames, d \in Data : ConvertToPDF(1, name, d)
    \/ DocxStep(1)

SpecDispatch == Init /\ [][DispatchNext]_vars

\* convertImageToPDF on every image size
ImageNext ==
    /\ \/ ImageDecode
       \/ ImageDecodeError
       \/ ImageToMM
       \/ ImageCap
       \/ ImageNewPage
       \/ ImageReturn
    /\ UNCHANGED <<convVars, txt, boot, req, db>>

SpecImage == Init /\ [][ImageNext]_vars

\* convertTextToPDF on every text
TextNext ==
    /\ \/ TextStart
       \/ TextSplit
       \/ TextMultiCell
       \/ TextOutput
       \/ TextReturn
    /\ UNCHANGED <<convVars, img, boot, req, db>>

SpecText == Init /\ [][TextNext]_vars

\* main from the start of the process to its end
ServiceNext ==
    \/ UploadStart
    \/ UploadSkip
    \/ UploadConvert
    \/ DocxStep(Handler)
    \/ UploadConvertError
    \/ UploadConvertReturn
    \/ UploadSave
    \/ UploadSaveError
    \/ UploadRespond
    \/ HandleDownload
    \/ HandleDownloadZip

\* the requests are served one after another: one POST /upload and one GET request
SpecService == Init /\ [][ServiceNext]_vars

MainNext ==
    /\ \/ MainEnv
       \/ MainConnect
       \/ MainConnectError
       \/ MainSleep
       \/ MainLoopEnd
       \/ MainFatal
       \/ MainListen
       \/ MainListenError
       \/ MainServe
       \/ MainSignal
    /\ UNCHANGED <<convVars, img, txt, req, db>>

\* main is a running goroutine: its sleep ends, its loop and its checks go on
SpecMain ==
    /\ Init
    /\ [][MainNext]_vars
    /\ WF_vars((MainSleep \/ MainLoopEnd \/ MainFatal) /\ UNCHANGED <<convVars, img, txt, req, db>>)

----------------------------------------------------------------------------
(* Vocabulary of the properties *)

Started(p) == pc[p] # "idle"
Returned(p) == pc[p] = "done"

\* the temp files that call p created and that are still in the temp directory
Owned(p) == {q \in Paths : fs[q].exists /\ fs[q].owner = p}

\* no two started calls were given the same filename
DistinctFilenames ==
    \A p \in Calls, q \in Calls :
        (p # q /\ Started(p) /\ Started(q)) => filename[p] # filename[q]

\* no other started call uses the input or the output path of call p
PathsUnshared(p) ==
    \A q \in Calls :
        (q # p /\ Started(q)) =>
            {TmpInputFile(filename[p]), OutputFile(filename[p])} \cap
            {TmpInputFile(filename[q]), OutputFile(filename[q])} = {}

\* name ends with e when letter case is ignored; e is a lower-case extension
\* with its dot first and no other dot, so e is then the final extension of name
EndsWithIgnoringCase(name, e) ==
    /\ Len(name) >= Len(e)
    /\ \A i \in 1..Len(e) :
         LET ch == name[Len(name) - Len(e) + i] IN
         \/ ch = e[i]
         \/ \E k \in 1..Len(UpperCase) : UpperCase[k] = ch /\ LowerCase[k] = e[i]

\* the converters the dispatch contract names for a filename
ExpectedConverters(name) ==
    (IF \/ EndsWithIgnoringCase(name, <<".","j","p","g">>)
        \/ EndsWithIgnoringCase(name, <<".","j","p","e","g">>)
        \/ EndsWithIgnoringCase(name, <<".","p","n","g">>)
     THEN {"image"} ELSE {})
    \cup (IF EndsWithIgnoringCase(name, <<".","t","x","t">>) THEN {"text"} ELSE {})
    \cup (IF EndsWithIgnoringCase(name, <<".","d","o","c","x">>) THEN {"docx"} ELSE {})

\* e is what follows (and includes) the last dot of name, or is empty without a dot
IsFinalExtension(name, e) ==
    \/ /\ \A i \in 1..Len(name) : name[i] # "."
       /\ e = <<>>
    \/ \E k \in 1..Len(name) :
         /\ name[k] = "."
         /\ \A i \in (k + 1)..Len(name) : name[i] # "."
         /\ e = SubSeq(name, k, Len(name))

\* e is the final extension of name with every upper-case letter lowered
IsLoweredFinalExtension(name, e) ==
    \E x \in {SubSeq(name, k, Len(name)) : k \in 1..(Len(name) + 1)} :
        /\ IsFinalExtension(name, x)
        /\ Len(e) = Len(x)
        /\ EndsWithIgnoringCase(x, e)
        /\ \A i \in 1..Len(e) : \A k \in 1..Len(UpperCase) : e[i] # UpperCase[k]

ImageDone == img.pc = "done" /\ img.err = "none"

\* the millimetre size of px pixels at 72 dpi, 25.4 mm per inch: px * 254 / 720
MillimetresOf(px) == Norm(<<px * 127, 360>>)

----------------------------------------------------------------------------
(* Properties *)

\* C1: after convertDocxToPDF has returned, neither the temp input file nor the
\* temp output file that the call created is on disk, on every exit path.
\* The code leaves the output file behind when the tool wrote it and then exited
\* nonzero or the read failed, and a truncated input when os.WriteFile failed.
C1_NoTempFileAfterReturn ==
    \A p \in Calls :
        (Returned(p) /\ "docx" \in invoked[p]) => Owned(p) = {}

\* C2: for every decodable image the page is at most 210 mm wide and at most
\* 297 mm high. The code clamps the height to 297 mm whenever the image is not
\* wider than tall, which leaves the width above 210 mm for near-square images.
C2_PageWithinA4 ==
    ImageDone => (RLe(img.size.Wd, Rat(210)) /\ RLe(img.size.Ht, Rat(297)))

\* C3: when the filenames of the concurrent calls differ, no call reads,
\* overwrites or removes a temp file of another call and every successful
\* document conversion returns the PDF made from its own input.
\* a.docx and a.DOCX differ and share the output path a.pdf.
C3_DistinctNamesDoNotInterfere ==
    DistinctFilenames =>
        /\ ~foreign
        /\ \A p \in Calls :
             (Returned(p) /\ "docx" \in invoked[p] /\ result[p].err.kind = "none") =>
                 result[p].bytes = LibreOffice(Raw(data[p]))

\* C4: ConvertToPDF invokes the image converter for .jpg, .jpeg and .png, the
\* text converter for .txt and the external-document converter for .docx, the
\* final extension being compared without regard to case; it invokes exactly
\* one converter for these and none for any other extension.
C4_DispatchByExtension ==
    \A p \in Calls :
        Started(p) =>
            /\ invoked[p] = ExpectedConverters(filename[p])
            /\ Cardinality(invoked[p]) <= 1
            /\ ("docx" \in invoked[p]) <=> (pc[p] # "done" \/ cmd[p].state # "none"
                                            \/ result[p].err.kind = "IOError")
            /\ (Returned(p) /\ invoked[p] = {"image"}) =>
                   result[p].bytes.kind \in {"pdf-image", "nil"}
            /\ (Returned(p) /\ invoked[p] = {"text"}) => result[p].bytes.kind = "pdf-text"

C4_Witness ==
    /\ Returned(1)
    /\ filename[1] = <<"a",".","d","o","c","x",".","T","x","t">>
    /\ invoked[1] = {"text"}
    /\ result[1].bytes.kind = "pdf-text"

\* C5 as first stated: for a filename whose extension is not recognized the call
\* fails with UnsupportedFormat carrying the extension exactly as it appears in
\* the filename, returns no bytes and creates no temp file.
C5_ExtensionAsInFilename ==
    \A p \in Calls :
        (Returned(p) /\ ExpectedConverters(filename[p]) = {}) =>
            /\ result[p].err.kind = "UnsupportedFormat"
            /\ IsFinalExtension(filename[p], result[p].err.ext)
            /\ result[p].bytes = Nil
            /\ Owned(p) = {}

\* C5 as amended: for a filename whose extension is not recognized the call fails
\* with UnsupportedFormat carrying the final extension in lower case, returns no
\* bytes and creates no temp file.
C5_UnsupportedFormat ==
    \A p \in Calls :
        (Returned(p) /\ ExpectedConverters(filename[p]) = {}) =>
            /\ result[p].err.kind = "UnsupportedFormat"
            /\ IsLoweredFinalExtension(filename[p], result[p].err.ext)
            /\ result[p].bytes = Nil
            /\ Owned(p) = {}
            /\ \A q \in Paths : ~fs[q].exists

C5_Witness ==
    /\ Returned(1)
    /\ filename[1] = <<"a",".","G","I","F">>
    /\ result[1].err = [kind |-> "UnsupportedFormat", ext |-> <<".","g","i","f">>,
                        stderr |-> ""]

\* C6: the page of every decodable image has the aspect ratio of the image,
\* capped or not: page width * pixel height = page height * pixel width.
C6_AspectRatioKept ==
    ImageDone =>
        RMul(img.size.Wd, Rat(img.height)) = RMul(img.size.Ht, Rat(img.width))

C6_Witness ==
    /\ ImageDone
    /\ img.width = 595
    /\ img.height = 842
    /\ img.size.Ht = Rat(297)
    /\ img.size.Wd # MillimetresOf(595)

\* C7: an image whose millimetre size at 72 dpi is at most 210 mm x 297 mm gets
\* a page of exactly that millimetre size; 100 x 50 pixels give 35.28 mm x
\* 17.64 mm to two decimals.
C7_SmallImageNotCapped ==
    (/\ ImageDone
     /\ RLe(MillimetresOf(img.width), Rat(210))
     /\ RLe(MillimetresOf(img.height), Rat(297)))
    => /\ img.size.Wd = MillimetresOf(img.width)
       /\ img.size.Ht = MillimetresOf(img.height)
       /\ (img.width = 100 /\ img.height = 50) =>
              /\ RGt(img.size.Wd, <<35275, 1000>>) /\ RGt(<<35285, 1000>>, img.size.Wd)
              /\ RGt(img.size.Ht, <<17635, 1000>>) /\ RGt(<<17645, 1000>>, img.size.Ht)

C7_Witness ==
    /\ ImageDone
    /\ img.width = 100
    /\ img.height = 50
    /\ img.size = [Wd |-> <<635, 18>>, Ht |-> <<635, 36>>]

\* C8: an image wider than tall whose millimetre size exceeds an A4 bound gets a
\* page exactly 210 mm wide and 210 * h / w mm high; 10000 x 5000 pixels give
\* exactly 210 mm x 105 mm.
C8_WideImageCappedOnWidth ==
    (/\ ImageDone
     /\ img.width > img.height
     /\ \/ RGt(MillimetresOf(img.width), Rat(210))
        \/ RGt(MillimetresOf(img.height), Rat(297)))
    => /\ img.size.Wd = Rat(210)
       /\ img.size.Ht = Norm(<<210 * img.height, img.width>>)

C8_Witness ==
    /\ ImageDone
    /\ img.width = 10000
    /\ img.height = 5000
    /\ img.size = [Wd |-> Rat(210), Ht |-> Rat(105)]

\* C9: when the tool cannot be launched or exits nonzero, convertDocxToPDF fails
\* with ConversionToolError carrying the captured stderr, returns no bytes and
\* leaves no temp file of the call behind. The output file the tool wrote before
\* exiting nonzero is left behind (the defect of C1).
C9_ToolFailureCleansUp ==
    \A p \in Calls :
        (Returned(p) /\ cmd[p].state \in {"launch-failed", "exit-nonzero"}) =>
            /\ result[p].err.kind = "ConversionToolError"
            /\ result[p].err.stderr = cmd[p].stderr
            /\ result[p].bytes = Nil
            /\ Owned(p) = {}

\* C10: when the tool exits with status zero and the expected output file is
\* absent, convertDocxToPDF fails with OutputNotFound, returns no bytes and
\* leaves no temp file of the call behind; its input and output paths are empty
\* unless another call uses them.
C10_MissingOutput ==
    \A p \in Calls :
        (Returned(p) /\ cmd[p].state = "exit-zero" /\ outSeen[p] = "absent") =>
            /\ result[p].err.kind = "OutputNotFound"
            /\ result[p].bytes = Nil
            /\ Owned(p) = {}
            /\ PathsUnshared(p) =>
                   /\ ~fs[TmpInputFile(filename[p])].exists
                   /\ ~fs[OutputFile(filename[p])].exists

C10_Witness ==
    \E p \in Calls :
        /\ Returned(p)
        /\ cmd[p].state = "exit-zero"
        /\ outSeen[p] = "absent"
        /\ result[p].err.kind = "OutputNotFound"
        /\ \A q \in Paths : ~fs[q].exists

\* the name without its final extension, found by looking for the last dot
BaseName(name) ==
    IF \E k \in 1..Len(name) : name[k] = "."
    THEN SubSeq(name, 1, (CHOOSE k \in 1..Len(name) :
                            /\ name[k] = "."
                            /\ \A i \in (k + 1)..Len(name) : name[i] # ".") - 1)
    ELSE name

\* call p returned a PDF, and not the PDF of its own input
ReturnedOthersPDF(p) ==
    /\ Returned(p)
    /\ "docx" \in invoked[p]
    /\ result[p].err.kind = "none"
    /\ result[p].bytes # LibreOffice(Raw(data[p]))

\* C16: two concurrent convertDocxToPDF calls that share a filename can collide on
\* their temp paths, so that a call fails or returns the PDF made from the other
\* call's bytes (the interleaving is C16_Witness). Stated for every state: a call
\* returns another call's PDF only when another started call has the same base
\* name, and then a call has touched a file of another call.
C16_CollisionOnlyOnSharedPath ==
    \A p \in Calls :
        ReturnedOthersPDF(p) =>
            /\ foreign
            /\ \E q \in Calls :
                 q # p /\ Started(q) /\ BaseName(filename[q]) = BaseName(filename[p])

C16_Witness ==
    /\ overlap
    /\ filename[1] = filename[2]
    /\ ReturnedOthersPDF(1)
    /\ result[1].bytes = LibreOffice(Raw(data[2]))
    /\ Returned(2)
    /\ result[2].err.kind = "OutputNotFound"

\* C19: when the page of an image is capped, both page dimensions are at most
\* the uncapped millimetre dimensions, and a dimension that is put to its A4
\* limit exceeded that limit before. The code puts the height to 297 mm for
\* every capped image that is not wider than tall, also when only the width
\* exceeds its limit, which enlarges the page.
C19_CappingOnlyShrinks ==
    (/\ ImageDone
     /\ \/ RGt(MillimetresOf(img.width), Rat(210))
        \/ RGt(MillimetresOf(img.height), Rat(297)))
    => /\ RLe(img.size.Wd, MillimetresOf(img.width))
       /\ RLe(img.size.Ht, MillimetresOf(img.height))
       /\ img.size.Wd = Rat(210) => RGt(MillimetresOf(img.width), Rat(210))
       /\ img.size.Ht = Rat(297) => RGt(MillimetresOf(img.height), Rat(297))

\* C20: when the calls run one after the other, a successful convertDocxToPDF
\* returns the PDF that the tool made from that call's own input, never an
\* output file that an earlier call left in the temp directory. The code reads
\* whatever is at the output path, also the file left by an earlier failed call
\* (the defect of C1) when the tool of this call exits zero without writing.
C20_ReturnsOwnOutput ==
    ~overlap =>
        \A p \in Calls : ~ReturnedOthersPDF(p)

\* the blocks put together again with a newline between two of them
RECURSIVE JoinNL(_)
JoinNL(blocks) ==
    IF Len(blocks) = 0 THEN <<>>
    ELSE IF Len(blocks) = 1 THEN blocks[1]
    ELSE blocks[1] \o <<NL>> \o JoinNL(Tail(blocks))

\* C12: convertTextToPDF hands the layout engine one block per element of the
\* text split at "\n", in the order of the text: there is one block more than
\* there are newlines, no block holds a newline, and the blocks joined with
\* "\n" are the text, whatever the length of a line.
C12_OneBlockPerLine ==
    txt.pc = "done" =>
        /\ Len(txt.blocks) = 1 + Cardinality({k \in 1..Len(txt.text) : txt.text[k] = NL})
        /\ \A b \in 1..Len(txt.blocks) :
             \A k \in 1..Len(txt.blocks[b]) : txt.blocks[b][k] # NL
        /\ JoinNL(txt.blocks) = txt.text

C12_Witness ==
    /\ txt.pc = "done"
    /\ txt.text = <<"a", NL, "b", "b", NL, "c", "c", "c">>
    /\ txt.blocks = << <<"a">>, <<"b", "b">>, <<"c", "c", "c">> >>

\* the defaults the README documents for the environment variables
DocumentedDefault(v) ==
    CASE v = "DB_HOST" -> "localhost"
      [] v = "DB_PORT" -> "5432"
      [] v = "DB_USER" -> "postgres"
      [] v = "DB_PASSWORD" -> "postgres"
      [] v = "DB_NAME" -> "pdfconverter"

\* C15: for each of DB_HOST, DB_PORT, DB_USER, DB_PASSWORD and DB_NAME on its
\* own, when the variable is not set the connection opened at startup uses its
\* documented default. NewDatabase builds its connection string from
\* os.Getenv and ignores main's, and main itself puts in the defaults only
\* when DB_HOST is empty.
C15_DefaultPerVariable ==
    boot.attempts # <<>> =>
        \A v \in EnvVars : boot.env[v] = "" => boot.conn[v] = DocumentedDefault(v)

\* the attempts so far: none after a success, and none after the fifth
AttemptsWellFormed ==
    /\ Len(boot.attempts) <= 5
    /\ \A k \in 1..Len(boot.attempts) :
         boot.attempts[k] = "ok" => k = Len(boot.attempts)

AllAttemptsFailed ==
    /\ Len(boot.attempts) = 5
    /\ \A k \in 1..5 : boot.attempts[k] = "failed"

C17_Safety ==
    /\ AttemptsWellFormed
    /\ (boot.listening \/ boot.served > 0) =>
           (boot.attempts # <<>> /\ boot.attempts[Len(boot.attempts)] = "ok")
    /\ AllAttemptsFailed =>
           /\ ~boot.listening
           /\ boot.served = 0
           /\ boot.pc \in {"sleep", "loop", "check", "exit"}
           /\ ~ENABLED MainConnect
           /\ ~ENABLED MainConnectError
           /\ ~ENABLED MainListen

\* C17: the connection is attempted at most 5 times and never again after a
\* success; the server listens and serves only after a successful attempt;
\* after 5 failed attempts main serves nothing, makes no further attempt and
\* the process ends.
C17_Startup ==
    /\ []C17_Safety
    /\ (AllAttemptsFailed ~> boot.pc = "exit")

C17_Witness ==
    /\ AllAttemptsFailed
    /\ boot.pc = "exit"
    /\ boot.served = 0

Range(seq) == {seq[k] : k \in DOMAIN seq}

\* every record is a (filename, bytes) that a ConvertToPDF call returned with a
\* nil error, and there is one record per file that was saved
RecordsAreReturnedPDFs ==
    /\ \A id \in DOMAIN db :
           /\ db[id].id = id
           /\ <<db[id].original_name, db[id].pdf_data>> \in req.returned
    /\ Len(db) = Cardinality({k \in DOMAIN req.up.outcomes : req.up.outcomes[k] = "saved"})
    /\ \A k \in DOMAIN req.up.outcomes :
           req.up.outcomes[k] = "convert-error" => k > Len(db)

\* a step keeps every record as it is
StoreGrows ==
    /\ Len(db') >= Len(db)
    /\ \A id \in DOMAIN db : db'[id] = db[id]

\* C11: every record of the store holds the bytes that a successful ConvertToPDF
\* call returned for the record's original_name, a failed conversion leaves no
\* record, and no step of a handler changes or removes a record.
C11_StoreHoldsReturnedPDFs ==
    /\ []RecordsAreReturnedPDFs
    /\ [][StoreGrows]_db

C11_Witness ==
    /\ req.up.pc = "done"
    /\ Len(db) = 1
    /\ req.up.outcomes = <<"saved", "convert-error">>
    /\ req.get.kind = "download"
    /\ req.get.status = 200

\* C13: a /download-zip answered with an archive has one entry for every
\* requested id that is in the store, holding that record's PDF bytes under
\* its <name-without-extension>.pdf.
C13_ZipHoldsEveryRecord ==
    (req.get.kind = "zip" /\ req.get.status = 200) =>
        LET found == Range(req.get.ids) \cap DOMAIN db IN
        /\ Cardinality(req.get.entries) = Cardinality(found)
        /\ \A id \in found :
               \E entry \in req.get.entries :
                   /\ entry.name = PdfFilename(db[id].original_name)
                   /\ entry.data = db[id].pdf_data

\* the ids a successful upload response carries
ResponseIDs(resp) == IF resp.file_id # 0 THEN <<resp.file_id>> ELSE resp.file_ids

\* C14: a successful response to an upload of N files carries N ids, the k-th
\* being the record this request saved for the k-th file: as file_id when
\* N = 1, as file_ids with the message's count N when N >= 2.
C14_OneIdPerFile ==
    req.up.resp.success =>
        LET n == req.up.n
            resp == req.up.resp
            ids == ResponseIDs(resp)
        IN  /\ Len(ids) = n
            /\ n = 1 => (resp.file_id # 0 /\ resp.file_ids = <<>>)
            /\ n >= 2 => (resp.file_id = 0 /\ resp.count = n)
            /\ \A k \in 1..n :
                   /\ ids[k] \in Range(req.up.fileIDs)
                   /\ ids[k] \in DOMAIN db
                   /\ db[ids[k]].original_name = req.up.names[k]

\* C18: in one upload request ConvertToPDF is called at most once per file and
\* in the order of the files; one convertDocxToPDF call starts the external tool
\* at most once; after a failed step of a conversion only its deferred removals
\* are left to run.
C18_NoRetry ==
    /\ \A j \in DOMAIN req.up.converted :
           /\ req.up.converted[j] \in 1..Len(req.up.names)
           /\ j > 1 => req.up.converted[j - 1] < req.up.converted[j]
    /\ \A p \in Calls :
           /\ cmd[p].launches <= 1
           /\ result[p].err # NoErr => pc[p] \in {"rm_in", "done"}

C18_Witness ==
    /\ req.up.converted = <<1, 2>>
    /\ req.up.outcomes = <<"save-error">>
    /\ pc[Handler] = "done"
    /\ cmd[Handler].launches = 1
    /\ result[Handler].err.kind = "ConversionToolError"

\* the upload has been answered with a failure
UploadFailed ==
    /\ req.up.pc = "done"
    /\ ~req.up.resp.success

\* C21: an upload answered with success=false has persisted no record: the
\* store is as it was before the request, also when a later file's conversion
\* fails after earlier files were converted and saved.
C21_FailedUploadPersistsNothing ==
    UploadFailed => (req.up.fileIDs = <<>> /\ db = <<>>)

====
